---------------------------- MODULE Spec2Model ----------------------------
(***************************************************************************)
(* Model of gemma-data/rust-prep/pca_quantize.py: load an embedding        *)
(* matrix, reduce it with PCA, quantize every reduced row to signed 8-bit  *)
(* values with one float32 scale per row, and write header + scales +      *)
(* quantized bytes to the output file.                                     *)
(*                                                                         *)
(* Numbers are IEEE-754 binary32 values, as numpy computes them: a finite  *)
(* value is (-1)^s * m * 2^e with 0 <= m < 2^24 and e >= -149 (m < 2^23    *)
(* only for e = -149: zero and the subnormals).  Division rounds to        *)
(* nearest, ties to even, with gradual underflow.                          *)
(***************************************************************************)
EXTENDS Integers, Sequences, FiniteSets

(***************************************************************************)
(* binary32 values                                                         *)
(***************************************************************************)
MantBits == 24
EMin == -149
EMax == 104

Pow2(n) == 2 ^ n

F(sgn, mant, ex) == [k |-> "fin", s |-> sgn, m |-> mant, e |-> ex]
Zero == F(0, 0, EMin)
Inf(sgn) == [k |-> "inf", s |-> sgn, m |-> 0, e |-> 0]
NaN == [k |-> "nan", s |-> 0, m |-> 0, e |-> 0]

IsZero(x) == x.k = "fin" /\ x.m = 0

\* np.abs on one element
Abs(x) == [x EXCEPT !.s = 0]

\* x < y for finite non-negative values in canonical form
MagLess(x, y) == x.e < y.e \/ (x.e = y.e /\ x.m < y.m)

\* Shift a non-zero mantissa up to 24 significant bits (the exponent may
\* leave the binary32 range: the result is an exact intermediate).
RECURSIVE Norm(_, _)
Norm(mant, ex) ==
    IF mant >= Pow2(MantBits - 1) THEN [m |-> mant, e |-> ex]
    ELSE Norm(2 * mant, ex - 1)

\* n further quotient bits of r / d, with 0 <= r < d
RECURSIVE LongDiv(_, _, _, _)
LongDiv(q, r, d, n) ==
    IF n = 0 THEN [q |-> q, r |-> r]
    ELSE IF 2 * r >= d THEN LongDiv(2 * q + 1, 2 * r - d, d, n - 1)
         ELSE LongDiv(2 * q, 2 * r, d, n - 1)

\* Round the exact value (q + r/d) * 2^ex, 2^23 <= q < 2^24, 0 <= r < d,
\* to binary32: nearest, ties to even, gradual underflow, overflow to inf.
RoundPack(sgn, q, r, d, ex) ==
    IF ex >= EMin THEN
        LET up == 2 * r > d \/ (2 * r = d /\ q % 2 = 1)
            m1 == IF up THEN q + 1 ELSE q
            mm == IF m1 = Pow2(MantBits) THEN Pow2(MantBits - 1) ELSE m1
            ee == IF m1 = Pow2(MantBits) THEN ex + 1 ELSE ex
        IN  IF ee > EMax THEN Inf(sgn) ELSE F(sgn, mm, ee)
    ELSE
        LET sh == EMin - ex
        IN  IF sh > MantBits + 1 THEN Zero
            ELSE LET qs == q \div Pow2(sh)
                     rem == q % Pow2(sh)
                     half == Pow2(sh - 1)
                     up == rem > half \/ (rem = half /\ r > 0)
                               \/ (rem = half /\ r = 0 /\ qs % 2 = 1)
                     m1 == IF up THEN qs + 1 ELSE qs
                 IN  IF m1 = 0 THEN Zero ELSE F(sgn, m1, EMin)

\* x / y in binary32 for finite x and y (numpy: x/0 is inf, 0/0 is nan)
F32Div(x, y) ==
    LET sgn == (x.s + y.s) % 2
    IN  IF y.m = 0 THEN (IF x.m = 0 THEN NaN ELSE Inf(sgn))
        ELSE IF x.m = 0 THEN Zero
        ELSE LET nx == Norm(x.m, x.e)
                 ny == Norm(y.m, y.e)
                 ge == nx.m >= ny.m
                 n == IF ge THEN MantBits - 1 ELSE MantBits
                 dv == LongDiv(IF ge THEN 1 ELSE 0,
                               IF ge THEN nx.m - ny.m ELSE nx.m, ny.m, n)
             IN  RoundPack(sgn, dv.q, dv.r, ny.m, nx.e - ny.e - n)

(***************************************************************************)
(* numpy element operations of the quantization loop                       *)
(***************************************************************************)
\* Results of np.round / np.clip: an integer-valued float, +-inf or nan.
\* Magnitudes of 2^24 and more are kept as 2^24: only their order against
\* the clip bounds is ever used.
IntVal(n) == [k |-> "int", n |-> n]
IntInf(sgn) == [k |-> "inf", n |-> IF sgn = 1 THEN -1 ELSE 1]
IntNaN == [k |-> "nan", n |-> 0]

Signed(sgn, n) == IF sgn = 1 THEN -n ELSE n

\* np.round: round half to even (rint)
NpRound(x) ==
    IF x.k = "nan" THEN IntNaN
    ELSE IF x.k = "inf" THEN IntInf(x.s)
    ELSE IF x.e >= 1 THEN IntVal(Signed(x.s, Pow2(MantBits)))
    ELSE IF x.e = 0 THEN IntVal(Signed(x.s, x.m))
    ELSE LET sh == -x.e
         IN  IF sh > MantBits + 1 THEN IntVal(0)
             ELSE LET ip == x.m \div Pow2(sh)
                      rem == x.m % Pow2(sh)
                      half == Pow2(sh - 1)
                      up == rem > half \/ (rem = half /\ ip % 2 = 1)
                  IN  IntVal(Signed(x.s, IF up THEN ip + 1 ELSE ip))

\* np.clip with the lower bound one too low (sensitivity variant)
NpClipBelow128(r, lo, hi) ==
    IF r.k = "nan" THEN IntNaN
    ELSE IF r.k = "inf" THEN IntVal(IF r.n < 0 THEN lo - 1 ELSE hi)
    ELSE IntVal(IF r.n < lo - 1 THEN lo - 1 ELSE IF r.n > hi THEN hi ELSE r.n)

\* np.clip(r, lo, hi): nan stays nan
NpClip(r, lo, hi) ==
    IF r.k = "nan" THEN IntNaN
    ELSE IF r.k = "inf" THEN IntVal(IF r.n < 0 THEN lo ELSE hi)
    ELSE IntVal(IF r.n < lo THEN lo ELSE IF r.n > hi THEN hi ELSE r.n)

\* What .astype(np.int8) makes of nan is undefined (C conversion): the
\* hardware conversion to a 32-bit integer yields INT_MIN (x86), 0 (ARM) or
\* INT_MAX (RISC-V), of which the low byte is kept: 0, 0, -1.
NaNCastOutcomes == {0, -1}

\* .astype(np.int8) of an integer-valued float: the low 8 bits
AsTypeInt8(c, nanval) ==
    IF c.k = "nan" THEN nanval
    ELSE ((c.n + 128) % 256) - 128

\* offset-binary storage instead of the bit pattern (sensitivity variant)
ViewUint8Offset(v) == v + 128

\* q_row.view(np.uint8): the same bits read as an unsigned byte

ViewUint8(v) == IF v >= 0 THEN v ELSE v + 256

\* np.abs(row).max() of a non-empty row
AbsMax(r) ==
    LET mags == {Abs(r[j]) : j \in 1..Len(r)}
    IN  CHOOSE a \in mags : \A b \in mags : ~MagLess(a, b)

F127 == F(0, 127 * Pow2(17), -17)
F1 == F(0, Pow2(23), -23)

\* scale 0.0 instead of 1.0 for an all-zero row (sensitivity variant)
ScaleOfZeroElse(a) == IF MagLess(Zero, a) THEN F32Div(a, F127) ELSE Zero

\* line 36: scale = abs_max / 127.0 if abs_max > 0 else 1.0
ScaleOf(a) == IF MagLess(Zero, a) THEN F32Div(a, F127) ELSE F1

\* line 40 for one element
QuantizeElem(x, sc, nanval) ==
    AsTypeInt8(NpClip(NpRound(F32Div(x, sc)), -127, 127), nanval)

\* line 40: the rows q_row can be (one outcome unless a nan is cast)
QuantizeRow(r, sc) ==
    {[j \in 1..Len(r) |-> QuantizeElem(r[j], sc, nv)] : nv \in NaNCastOutcomes}

(***************************************************************************)
(* Serialization.  struct.pack("III", ...) and ndarray.tobytes() use the   *)
(* byte order of the host; the model is of a little-endian host.           *)
(***************************************************************************)
Byte(n, kth) == (n \div Pow2(8 * kth)) % 256

\* one unsigned 32-bit field of struct.pack("III", ...)
PackU32(n) == <<Byte(n, 0), Byte(n, 1), Byte(n, 2), Byte(n, 3)>>

\* the first two header fields swapped (sensitivity variant)
PackHeaderSwapped(n, dim) == PackU32(dim) \o PackU32(n) \o PackU32(1)

\* line 50: struct.pack("III", vocab_size, TARGET_DIM, 1): 12 bytes, no padding
PackHeader(n, dim) == PackU32(n) \o PackU32(dim) \o PackU32(1)

\* the four bytes of a finite binary32 value
F32Bytes(x) ==
    LET bits == (x.e - EMin) * Pow2(MantBits - 1) + x.m
    IN  <<Byte(bits, 0), Byte(bits, 1), Byte(bits, 2), Byte(bits, 3) + 128 * x.s>>

\* the eight bytes of the same value as a binary64 (sensitivity variant:
\* scales written without the conversion to float32)
F64Bytes(x) ==
    LET ex == IF x.m = 0 THEN 0 ELSE Norm(x.m, x.e).e + 1046
        fr == IF x.m = 0 THEN 0 ELSE Norm(x.m, x.e).m - Pow2(MantBits - 1)
    IN  <<0, 0, 0, (fr % 8) * 32, Byte(fr \div 8, 0), Byte(fr \div 8, 1),
          (ex % 16) * 16 + Byte(fr \div 8, 2), ex \div 16 + 128 * x.s>>

RECURSIVE Flatten(_)
Flatten(seqs) ==
    IF seqs = <<>> THEN <<>> ELSE Head(seqs) \o Flatten(Tail(seqs))

ScalesBytesAsFloat64(sc) == Flatten([n \in 1..Len(sc) |-> F64Bytes(sc[n])])

\* line 52: scales.tobytes() of the float32 array
ScalesBytes(sc) == Flatten([n \in 1..Len(sc) |-> F32Bytes(sc[n])])

\* column-major flattening (sensitivity variant)
QuantizedBytesColumnMajor(q) ==
    IF q = <<>> THEN <<>>
    ELSE Flatten([j \in 1..Len(q[1]) |-> [n \in 1..Len(q) |-> q[n][j]]])

\* line 54: quantized.tobytes() of the C-contiguous (N, K) uint8 matrix
QuantizedBytes(q) == Flatten(q)

(***************************************************************************)
(* Bounds and inputs                                                       *)
(***************************************************************************)
MaxN == 2
MaxD == 2
MaxK == 2

Min(a, b) == IF a <= b THEN a ELSE b

Sub(n) == F(0, n, EMin)
Neg(x) == [x EXCEPT !.s = 1]

\* Values of reduced rows, as <<first element, every other element>>:
\* zero; 127.0; 2.54; just above 127.0 (negative); a pair whose quotient by
\* the scale is a rounding tie; subnormal rows whose scale rounds to the
\* least subnormal 2^-149 or to 0.
RowPairs ==
    { <<Zero, Zero>>,
      <<F127, Zero>>,
      <<F(0, 10653532, -22), Zero>>,
      <<F(1, 16646145, -17), F(0, 10653532, -22)>>,
      <<F(0, 14542955, -19), F(1, 12424493, -19)>>,
      <<Sub(64), Zero>>,
      <<Neg(Sub(190)), Sub(63)>>,
      <<Sub(63), Zero>> }

Rows(dim) == {[j \in 1..dim |-> IF j = 1 THEN p[1] ELSE p[2]] : p \in RowPairs}

\* What pca.fit_transform returns for an (n, d) input: an (n, dim) matrix of
\* finite float32 values.  A single sample is its own mean, so its
\* projection is the zero row; otherwise any row can come out.
Matrices(n, dim) ==
    IF n = 1 THEN {<<[j \in 1..dim |-> Zero]>>} ELSE [1..n -> Rows(dim)]

\* whether PCA(n_components=dim).fit_transform accepts an (n, d) input:
\* the input validation wants at least one sample and one feature, the
\* full solver 0 <= n_components <= min(n_samples, n_features)
PCAAccepts(n, d, dim) == n >= 1 /\ d >= 1 /\ dim >= 0 /\ dim <= Min(n, d)

\* what a failed write can leave behind: nothing, or all but the last byte
Partial(data) ==
    {SubSeq(data, 1, n) : n \in {0, IF data = <<>> THEN 0 ELSE Len(data) - 1}}

(***************************************************************************)
(* State                                                                   *)
(***************************************************************************)
VARIABLES
    pc,            \* the statement the script is at
    TARGET_DIM,    \* line 14 (configuration)
    vocab_size,    \* line 18
    orig_dim,      \* line 18
    emb_reduced,   \* line 24
    scales,        \* lines 30, 37, 44
    quantized,     \* lines 31, 41, 43
    i,             \* loop index of line 33 (-1 before the first iteration)
    row,           \* line 34
    abs_max,       \* line 35
    scale,         \* line 36
    q_row,         \* line 40
    f,             \* the handle of line 48: "none", "open", "closed"
    opens,         \* how often OUTPUT was opened
    disk,          \* the file at OUTPUT
    disk_before,   \* the file at OUTPUT when the script started
    error          \* the exception that ends the run, or "none"

vars == <<pc, TARGET_DIM, vocab_size, orig_dim, emb_reduced, scales, quantized,
          i, row, abs_max, scale, q_row, f, opens, disk, disk_before, error>>

config == <<TARGET_DIM, disk_before>>
shape == <<vocab_size, orig_dim>>
loopvars == <<scales, quantized, i, row, abs_max, scale, q_row>>
handle == <<f, opens>>

NoFile == [exists |-> FALSE, bytes |-> <<>>]
OldFile == [exists |-> TRUE, bytes |-> <<7, 7>>]

Init ==
    /\ pc = "load"
    /\ TARGET_DIM \in -1..MaxK
    /\ vocab_size = 0
    /\ orig_dim = 0
    /\ emb_reduced = <<>>
    /\ scales = <<>>
    /\ quantized = <<>>
    /\ i = -1
    /\ row = <<>>
    /\ abs_max = Zero
    /\ scale = Zero
    /\ q_row = <<>>
    /\ f = "none"
    /\ opens = 0
    /\ disk \in {NoFile, OldFile}
    /\ disk_before = disk
    /\ error = "none"

Raise(exc) == pc' = "failed" /\ error' = exc

(***************************************************************************)
(* Lines 17-18: np.load and the unpacking of emb.shape                     *)
(***************************************************************************)
LoadOk ==
    /\ pc = "load"
    /\ \E n \in 0..MaxN, d \in 0..MaxD : vocab_size' = n /\ orig_dim' = d
    /\ pc' = "pca"
    /\ UNCHANGED <<config, emb_reduced, loopvars, handle, disk, error>>

\* missing or malformed file, or an array that is not two-dimensional
LoadRaises ==
    /\ pc = "load"
    /\ Raise("IOError")
    /\ UNCHANGED <<config, shape, emb_reduced, loopvars, handle, disk>>

(***************************************************************************)
(* Lines 23-31: PCA(n_components=TARGET_DIM).fit_transform(emb)            *)
(***************************************************************************)
\* the output truncated before the reducer has accepted (sensitivity variant)
PCAFitTruncating ==
    /\ pc = "pca"
    /\ IF PCAAccepts(vocab_size, orig_dim, TARGET_DIM)
       THEN /\ emb_reduced' \in Matrices(vocab_size, TARGET_DIM)
            /\ pc' = "loop"
            /\ UNCHANGED <<error, disk>>
       ELSE /\ Raise("ValueError")
            /\ disk' = [exists |-> TRUE, bytes |-> <<>>]
            /\ UNCHANGED emb_reduced
    /\ UNCHANGED <<config, shape, loopvars, handle>>

PCAFit ==
    /\ pc = "pca"
    /\ IF PCAAccepts(vocab_size, orig_dim, TARGET_DIM)
       THEN /\ emb_reduced' \in Matrices(vocab_size, TARGET_DIM)
            /\ pc' = "loop"
            /\ UNCHANGED error
       ELSE /\ Raise("ValueError")
            /\ UNCHANGED emb_reduced
    /\ UNCHANGED <<config, shape, loopvars, handle, disk>>

(***************************************************************************)
(* Lines 33-41: one iteration of the quantization loop                     *)
(***************************************************************************)
LoopBody ==
    /\ pc = "loop"
    /\ i + 1 < vocab_size
    /\ i' = i + 1
    /\ LET r == emb_reduced[i + 2]          \* emb_reduced[i'], counted from 0
       IN  /\ row' = r
           /\ IF r = <<>>
              THEN \* np.abs(row).max() of an empty row raises
                   /\ Raise("ValueError")
                   /\ UNCHANGED <<abs_max, scale, scales, q_row, quantized>>
              ELSE LET a == AbsMax(r)
                       sc == ScaleOf(a)
                   IN  /\ abs_max' = a
                       /\ scale' = sc
                       /\ scales' = Append(scales, sc)
                       /\ \E qr \in QuantizeRow(r, sc) :
                              /\ q_row' = qr
                              /\ quantized' =
                                     Append(quantized,
                                            [j \in 1..Len(qr) |-> ViewUint8(qr[j])])
                       /\ UNCHANGED <<pc, error>>
    /\ UNCHANGED <<config, shape, emb_reduced, handle, disk>>

\* Lines 43-44 after the last iteration: np.vstack and np.array(dtype=float32)
\* keep every value (the scales are float32 values already).
Stack ==
    /\ pc = "loop"
    /\ i + 1 = vocab_size
    /\ pc' = "open"
    /\ UNCHANGED <<config, shape, emb_reduced, loopvars, handle, disk, error>>

(***************************************************************************)
(* Lines 48-54: with open(OUTPUT, "wb") as f: three writes                 *)
(***************************************************************************)
\* open(..., "wb") creates the file or truncates the one that is there
OpenOk ==
    /\ pc = "open"
    /\ f' = "open"
    /\ opens' = opens + 1
    /\ disk' = [exists |-> TRUE, bytes |-> <<>>]
    /\ pc' = "write_header"
    /\ UNCHANGED <<config, shape, emb_reduced, loopvars, error>>

OpenRaises ==
    /\ pc = "open"
    /\ Raise("OSError")
    /\ UNCHANGED <<config, shape, emb_reduced, loopvars, handle, disk>>

\* f.write(data) inside the with block: all of data, then on to `next`; or
\* an OSError that leaves the block with part of data written
Write(at, data, next) ==
    /\ pc = at
    /\ \/ /\ disk' = [disk EXCEPT !.bytes = @ \o data]
          /\ pc' = next
          /\ UNCHANGED error
       \/ /\ \E part \in Partial(data) : disk' = [disk EXCEPT !.bytes = @ \o part]
          /\ pc' = "exit_with"
          /\ error' = "OSError"
    /\ UNCHANGED <<config, shape, emb_reduced, loopvars, handle>>

WriteHeader ==
    Write("write_header", PackHeader(vocab_size, TARGET_DIM), "write_scales")

WriteScales ==
    Write("write_scales", ScalesBytes(scales), "write_quantized")

WriteQuantized ==
    Write("write_quantized", QuantizedBytes(quantized), "exit_with")

\* no close when an exception is in flight (sensitivity variant)
ExitWithLeaking ==
    /\ pc = "exit_with"
    /\ f' = IF error = "none" THEN "closed" ELSE f
    /\ \/ pc' = (IF error = "none" THEN "done" ELSE "failed") /\ UNCHANGED error
       \/ error = "none" /\ Raise("OSError")
    /\ UNCHANGED <<config, shape, emb_reduced, loopvars, opens, disk>>

\* Leaving the with block, normally or with an exception in flight, closes
\* f; the close can itself fail (the final flush), with f closed all the
\* same.  After a normal exit, lines 56-58 only print.
ExitWith ==
    /\ pc = "exit_with"
    /\ f' = "closed"
    /\ \/ pc' = (IF error = "none" THEN "done" ELSE "failed") /\ UNCHANGED error
       \/ error = "none" /\ Raise("OSError")
    /\ UNCHANGED <<config, shape, emb_reduced, loopvars, opens, disk>>

Next ==
    \/ LoadOk
    \/ LoadRaises
    \/ PCAFit
    \/ LoopBody
    \/ Stack
    \/ OpenOk
    \/ OpenRaises
    \/ WriteHeader
    \/ WriteScales
    \/ WriteQuantized
    \/ ExitWith

Spec == Init /\ [][Next]_vars

\* The interpreter does not stop inside the with block: each write returns
\* or raises, and the block is then left.
FairSpec ==
    /\ Spec
    /\ WF_vars(WriteHeader)
    /\ WF_vars(WriteScales)
    /\ WF_vars(WriteQuantized)
    /\ WF_vars(ExitWith)

Terminated == pc \in {"done", "failed"}

(***************************************************************************)
(* What a reader of the file, and exact arithmetic, make of the values     *)
(***************************************************************************)
\* a stored byte read back as a signed 8-bit integer
AsInt8(b) == IF b < 128 THEN b ELSE b - 256

\* the unsigned 32-bit integer at byte offset off (from 0)
U32At(bytes, off) ==
    bytes[off + 1] + 256 * bytes[off + 2] + 65536 * bytes[off + 3]
        + 16777216 * bytes[off + 4]

\* the binary32 value at byte offset off (from 0)
F32At(bytes, off) ==
    LET sgn == bytes[off + 4] \div 128
        biased == (bytes[off + 4] % 128) * 2 + bytes[off + 3] \div 128
        frac == (bytes[off + 3] % 128) * 65536 + bytes[off + 2] * 256 + bytes[off + 1]
    IN  IF biased = 0 THEN (IF frac = 0 THEN Zero ELSE F(sgn, frac, EMin))
        ELSE F(sgn, frac + Pow2(MantBits - 1), biased - 150)

AllZero(r) == \A j \in 1..Len(r) : IsZero(r[j])

\* |x[j]| is the largest magnitude of the row
IsMaxOf(r, j) == \A jj \in 1..Len(r) : ~MagLess(Abs(r[j]), Abs(r[jj]))

\* |v * sc - x| <= sc / 2 in exact arithmetic, for an integer v and finite
\* binary32 values sc >= 0 and x.  With w = v (or -v for x < 0) and |x| =
\* (xi + fr) * 2^sc.e, 0 <= fr < 1, this is  -sc.m/2 <= w*sc.m - xi - fr <=
\* sc.m/2.
ErrWithinHalfScale(v, sc, x) ==
    LET w == IF x.s = 1 THEN -v ELSE v
        up == x.e - sc.e
        dn == sc.e - x.e
        far == x.m > 0 /\ up > 7              \* |x| >= 2^31 units: too far
        xi == IF x.m = 0 \/ far THEN 0
              ELSE IF up >= 0 THEN x.m * Pow2(up)
              ELSE IF dn > MantBits THEN 0
              ELSE x.m \div Pow2(dn)
        rem == IF up >= 0 \/ dn > MantBits THEN 0 ELSE x.m % Pow2(dn)
        frZero == x.m = 0 \/ up >= 0 \/ (dn <= MantBits /\ rem = 0)
        frHalfOrMore == x.m > 0 /\ up < 0 /\ dn <= MantBits /\ 2 * rem >= Pow2(dn)
        frHalfOrLess == frZero \/ dn > MantBits \/ 2 * rem <= Pow2(dn)
        h == sc.m \div 2
        odd == sc.m % 2 = 1
    IN  IF far THEN FALSE
        ELSE IF w < 0 THEN sc.m = 0 /\ x.m = 0
        ELSE LET d == w * sc.m - xi
             IN  /\ \/ d - h <= 0
                    \/ d - h = 1 /\ odd /\ frHalfOrMore
                 /\ \/ d + h >= 1
                    \/ d + h = 0 /\ (frZero \/ (odd /\ frHalfOrLess))

\* an iteration of the loop has just computed row, abs_max, scale and q_row
Quantized == i >= 0 /\ row # <<>>

(***************************************************************************)
(* Properties                                                              *)
(***************************************************************************)
HeaderLen == 12
ScalesEnd == HeaderLen + 4 * vocab_size
Completed == pc = "done"

C2_ScaleOneIffZeroRow ==
    \A n \in 1..Len(scales) :
        /\ scales[n].k = "fin" /\ scales[n].s = 0
        /\ scales[n] = F1 <=> AllZero(emb_reduced[n])

\* C2 amended: every emitted scale is >= 0; an all-zero row gets exactly
\* 1.0; a row with a non-zero element gets 1.0 exactly when its largest
\* magnitude is 127.0.
C2_ScaleOneIffZeroOr127 ==
    \A n \in 1..Len(scales) :
        /\ scales[n].k = "fin" /\ scales[n].s = 0
        /\ AllZero(emb_reduced[n]) => scales[n] = F1
        /\ scales[n] = F1 <=>
               \/ AllZero(emb_reduced[n])
               \/ \E j \in 1..Len(emb_reduced[n]) :
                      IsMaxOf(emb_reduced[n], j) /\ Abs(emb_reduced[n][j]) = F127

\* C2 witness: an all-zero row, a row of largest magnitude 127.0 and a row
\* of largest magnitude just above 127.0 have got their scales.
C2_Witness ==
    /\ pc = "done"
    /\ \E n \in 1..Len(scales) : AllZero(emb_reduced[n]) /\ scales[n] = F1
    /\ \E n \in 1..Len(scales) :
           \/ emb_reduced[n][1] = F127 /\ scales[n] = F1
           \/ emb_reduced[n][1] = F(1, 16646145, -17) /\ scales[n] # F1

\* C3 as stated: after each iteration, v * scale is within scale / 2 of x
\* for every element x of the row and its quantized value v.
C3_RoundTripWithinHalfScale ==
    Quantized => \A j \in 1..Len(row) : ErrWithinHalfScale(q_row[j], scale, row[j])

\* C4 as stated: a completed run's header decodes to (N, K, 1), and no
\* input with N >= 1 and 1 <= K <= D is rejected (only I/O can fail it).
C4_HeaderForAnyKUpToD ==
    /\ Completed =>
           /\ Len(disk.bytes) >= HeaderLen
           /\ <<U32At(disk.bytes, 0), U32At(disk.bytes, 4), U32At(disk.bytes, 8)>>
                  = <<vocab_size, TARGET_DIM, 1>>
    /\ (pc = "failed" /\ vocab_size >= 1 /\ 1 <= TARGET_DIM /\ TARGET_DIM <= orig_dim)
           => error \in {"IOError", "OSError"}

\* C4 amended: a completed run's header decodes to (N, K, 1), and no input
\* with N >= 1 and 1 <= K <= min(N, D) is rejected (only I/O can fail it).
C4_HeaderForKUpToMinND ==
    /\ Completed =>
           /\ Len(disk.bytes) >= HeaderLen
           /\ <<U32At(disk.bytes, 0), U32At(disk.bytes, 4), U32At(disk.bytes, 8)>>
                  = <<vocab_size, TARGET_DIM, 1>>
    /\ (pc = "failed" /\ vocab_size >= 1 /\ 1 <= TARGET_DIM
            /\ TARGET_DIM <= Min(vocab_size, orig_dim))
           => error \in {"IOError", "OSError"}

\* C4 witness: a run with N = 2 rows and K = 1 has completed and the
\* header reads (2, 1, 1).
C4_Witness ==
    /\ Completed /\ vocab_size = 2 /\ TARGET_DIM = 1
    /\ SubSeq(disk.bytes, 1, HeaderLen) = <<2, 0, 0, 0, 1, 0, 0, 0, 1, 0, 0, 0>>

\* C5: the file of a completed run holds exactly 12 + 4*N + N*K bytes.
C5_FileSize ==
    Completed => Len(disk.bytes) = 12 + 4 * vocab_size + vocab_size * TARGET_DIM

\* C5 witness: a run with N = 2 and K = 2 has completed with 24 bytes.
C5_Witness ==
    Completed /\ vocab_size = 2 /\ TARGET_DIM = 2 /\ Len(disk.bytes) = 24

\* C6: the sections are written in the order header, scales, quantized
\* bytes, each once: the file holds 0 bytes when the header is about to be
\* written, 12 when the scales are, 12 + 4*N when the quantized bytes are;
\* in the completed file the float32 at 12 + 4*i is the scale of row i and
\* the byte at 12 + 4*N + i*K + j is the quantized value of row i, column j.
C6_LayoutInRowOrder ==
    /\ pc = "write_header" => Len(disk.bytes) = 0
    /\ pc = "write_scales" => Len(disk.bytes) = HeaderLen
    /\ pc = "write_quantized" => Len(disk.bytes) = ScalesEnd
    /\ Completed =>
           \A n \in 1..vocab_size :
               /\ F32At(disk.bytes, HeaderLen + 4 * (n - 1))
                      = ScaleOf(AbsMax(emb_reduced[n]))
               /\ \E qr \in QuantizeRow(emb_reduced[n], ScaleOf(AbsMax(emb_reduced[n]))) :
                      \A j \in 1..TARGET_DIM :
                          AsInt8(disk.bytes[ScalesEnd + (n - 1) * TARGET_DIM + (j - 1) + 1])
                              = qr[j]

\* C6 witness: a completed 2 x 2 run whose rows differ in scale and in
\* quantized values, and differ between columns.
C6_Witness ==
    /\ Completed /\ vocab_size = 2 /\ TARGET_DIM = 2
    /\ scales[1] # scales[2]
    /\ quantized[1][2] # quantized[2][1]

\* C7: a run that fails in the load or in the reducer (or on an empty
\* reduced row) has computed no quantization and never opened the output:
\* the file at OUTPUT is as it was, created or modified by nothing.
C7_EarlyFailureLeavesOutput ==
    (pc = "failed" /\ error \in {"IOError", "ValueError"}) =>
        /\ disk = disk_before
        /\ opens = 0 /\ f = "none"
        /\ scales = <<>> /\ quantized = <<>> /\ q_row = <<>>

\* C7 witness: the reducer has rejected K > D with a file already at OUTPUT.
C7_Witness ==
    /\ pc = "failed" /\ error = "ValueError"
    /\ TARGET_DIM > orig_dim /\ vocab_size >= 1 /\ orig_dim >= 1
    /\ disk_before = OldFile /\ disk = OldFile

\* C8: the output is opened at most once, exactly once if there is a
\* handle at all; no finished run, completed or failed, leaves the handle
\* open; and an open handle is eventually closed.
C8_HandleClosed ==
    /\ [](/\ opens <= 1
          /\ (f # "none") <=> (opens = 1)
          /\ Terminated => f # "open")
    /\ (f = "open") ~> (f = "closed")

\* C8 witness: a run whose write of the scales failed has ended with the
\* handle closed.
C8_Witness ==
    /\ pc = "failed" /\ error = "OSError" /\ f = "closed"
    /\ Len(disk.bytes) >= HeaderLen /\ Len(disk.bytes) < ScalesEnd

C10_MaxTo127ZeroTo0 ==
    (Quantized /\ ~AllZero(row)) =>
        \A j \in 1..Len(row) :
            /\ IsMaxOf(row, j) => q_row[j] = (IF row[j].s = 1 THEN -127 ELSE 127)
            /\ IsZero(row[j]) => q_row[j] = 0

=============================================================================
